---------------------------- MODULE Spec2Model ----------------------------
(***************************************************************************)
(* Model of ff-website-converter (src/src/main.rs): the migration of the   *)
(* articles of a legacy JSON export into a content tree.                   *)
(*                                                                         *)
(* Text is a sequence of characters, each character a one-character        *)
(* string; the token "nbsp" stands for U+00A0.  The regular expressions of *)
(* main.rs are modelled by leftmost, non-overlapping matching, as the      *)
(* regex crate's replace_all and captures_iter do.                         *)
(***************************************************************************)
EXTENDS Integers, Sequences, FiniteSets, TLC

(***************************************************************************)
(* Characters                                                              *)
(***************************************************************************)
NBSP == "nbsp"

Digits == {"0", "1", "2", "3", "4", "5", "6", "7", "8", "9"}

\* [0-9]
IsDigit(c) == c \in Digits

\* \s (Unicode White_Space, which holds U+00A0)
IsSpace(c) == c \in {" ", "\t", "\n", "\r", "\f", NBSP}

(***************************************************************************)
(* CLEAN_REGEX  "<[^<>]+>"                                                 *)
(***************************************************************************)
\* Length of the run of characters outside `stop` that starts at s[i].
RECURSIVE RunLen(_, _, _)
RunLen(s, i, stop) ==
    IF i > Len(s) \/ s[i] \in stop THEN 0 ELSE 1 + RunLen(s, i + 1, stop)

\* Length of the match of CLEAN_REGEX that starts at s[i]; 0 when none does.
CleanMatchLen(s, i) ==
    IF s[i] # "<" THEN 0
    ELSE LET n == RunLen(s, i + 1, {"<", ">"})
         IN  IF n >= 1 /\ i + 1 + n <= Len(s) /\ s[i + 1 + n] = ">"
             THEN n + 2 ELSE 0

\* CLEAN_REGEX.replace_all(s, "") from position i on.
RECURSIVE CleanFrom(_, _)
CleanFrom(s, i) ==
    IF i > Len(s) THEN <<>>
    ELSE LET n == CleanMatchLen(s, i)
         IN  IF n > 0 THEN CleanFrom(s, i + n)
             ELSE <<s[i]>> \o CleanFrom(s, i + 1)

CleanTags(s) == CleanFrom(s, 1)

(***************************************************************************)
(* .replace("\u{a0}", "") and .replace("\r\n", "\n")                       *)
(***************************************************************************)
RemoveNbsp(s) == SelectSeq(s, LAMBDA c : c # NBSP)

RECURSIVE CrLfFrom(_, _)
CrLfFrom(s, i) ==
    IF i > Len(s) THEN <<>>
    ELSE IF i < Len(s) /\ s[i] = "\r" /\ s[i + 1] = "\n"
         THEN <<"\n">> \o CrLfFrom(s, i + 2)
         ELSE <<s[i]>> \o CrLfFrom(s, i + 1)

CrLfToLf(s) == CrLfFrom(s, 1)

(***************************************************************************)
(* NEW_LINE_AFTER_DOT_REGEX  "([^0-9])(\.\s)"  replaced by  "${1}.\n"      *)
(***************************************************************************)
\* Whether NEW_LINE_AFTER_DOT_REGEX matches at s[i]: three characters, a
\* non-digit, a period and a whitespace character.
DotMatchAt(s, i) ==
    /\ i + 2 <= Len(s)
    /\ ~IsDigit(s[i])
    /\ s[i + 1] = "."
    /\ IsSpace(s[i + 2])

RECURSIVE NewLineAfterDotFrom(_, _)
NewLineAfterDotFrom(s, i) ==
    IF i > Len(s) THEN <<>>
    ELSE IF DotMatchAt(s, i)
         THEN <<s[i], ".", "\n">> \o NewLineAfterDotFrom(s, i + 3)
         ELSE <<s[i]>> \o NewLineAfterDotFrom(s, i + 1)

NewLineAfterDot(s) == NewLineAfterDotFrom(s, 1)

(***************************************************************************)
(* NEW_LINE_AT_BEGINING_REGEX  "^(\n)+"  replaced by  ""                   *)
(***************************************************************************)
RECURSIVE LeadingNewlines(_, _)
LeadingNewlines(s, i) ==
    IF i > Len(s) \/ s[i] # "\n" THEN 0 ELSE 1 + LeadingNewlines(s, i + 1)

StripLeadingNewlines(s) == SubSeq(s, LeadingNewlines(s, 1) + 1, Len(s))

\* The text of an article: lines 211-220 of get_article.
NormalizeText(introtext) ==
    StripLeadingNewlines(
        NewLineAfterDot(CrLfToLf(RemoveNbsp(CleanTags(introtext)))))

(***************************************************************************)
(* IMAGE_REGEX  "src=\"([^\"]+)\""                                         *)
(***************************************************************************)
SrcPrefix == <<"s", "r", "c", "=", "\"">>

\* Length of the capture group of the match of IMAGE_REGEX that starts at
\* s[i]; 0 when none does.
ImageCaptureLen(s, i) ==
    IF i + Len(SrcPrefix) - 1 > Len(s)
       \/ SubSeq(s, i, i + Len(SrcPrefix) - 1) # SrcPrefix
    THEN 0
    ELSE LET from == i + Len(SrcPrefix)
             n    == RunLen(s, from, {"\""})
         IN  IF n >= 1 /\ from + n <= Len(s) THEN n ELSE 0

\* IMAGE_REGEX.captures_iter(s), capture 1 of every match from position i on.
RECURSIVE ImagesFrom(_, _)
ImagesFrom(s, i) ==
    IF i > Len(s) THEN <<>>
    ELSE LET n == ImageCaptureLen(s, i)
         IN  IF n > 0
             THEN <<SubSeq(s, i + Len(SrcPrefix), i + Len(SrcPrefix) + n - 1)>>
                  \o ImagesFrom(s, i + Len(SrcPrefix) + n + 1)
             ELSE ImagesFrom(s, i + 1)

ExtractImages(introtext) == ImagesFrom(introtext, 1)

(***************************************************************************)
(* JSON values and the records of the input document                       *)
(*                                                                         *)
(* A field of a record is absent, a number or a string.  A `created`       *)
(* string is modelled by whether it parses under DATE_TIME_FORMAT and, if  *)
(* it does, by its year y and the rest t of the timestamp: the fixed-width *)
(* strings are ordered as the pairs <<y, t>> are.  A `catid` string and an *)
(* `introtext` string are character sequences, a `title` is a string.      *)
(***************************************************************************)
Absent == [kind |-> "absent"]
Num(n) == [kind |-> "num", num |-> n]
Str(v) == [kind |-> "str", val |-> v]

\* serde_json::Value::as_str: the string, if the value is one.
as_str(v) == IF v.kind = "str" THEN <<v.val>> ELSE <<>>

Date(y, t) == [wf |-> TRUE, y |-> y, t |-> t]
NotADate   == [wf |-> FALSE, y |-> 0, t |-> 0]

\* NaiveDateTime::parse_from_str(s, DATE_TIME_FORMAT) followed by year():
\* <<year>>, or <<>> for the Err that unwrap() turns into a panic.
ParseYear(s) == IF s.wf THEN <<s.y>> ELSE <<>>

\* The order of the date strings (String's Ord).
DateLeq(a, b) == a.y < b.y \/ (a.y = b.y /\ a.t <= b.t)

DigitVal(c) ==
    CASE c = "0" -> 0 [] c = "1" -> 1 [] c = "2" -> 2 [] c = "3" -> 3
      [] c = "4" -> 4 [] c = "5" -> 5 [] c = "6" -> 6 [] c = "7" -> 7
      [] c = "8" -> 8 [] c = "9" -> 9

RECURSIVE DecimalValue(_, _)
DecimalValue(s, acc) ==
    IF s = <<>> THEN acc ELSE DecimalValue(Tail(s), 10 * acc + DigitVal(Head(s)))

\* str::parse::<u32>: an optional "+", then one or more digits: <<n>>, or <<>>
\* for the Err that unwrap() turns into a panic.  (The catid strings of the
\* model are short: none overflows a u32.)
ParseU32(s) ==
    LET digits == IF s # <<>> /\ Head(s) = "+" THEN Tail(s) ELSE s
    IN  IF digits = <<>> \/ \E k \in 1..Len(digits) : ~IsDigit(digits[k])
        THEN <<>>
        ELSE <<DecimalValue(digits, 0)>>

(***************************************************************************)
(* Constants of main.rs                                                    *)
(***************************************************************************)
YEARS == <<2021, 2020, 2019, 2018>>

CATID == 5

(***************************************************************************)
(* get_article and get_articles                                            *)
(***************************************************************************)
\* get_article panics: expect() on introtext or title (created is a string
\* for every record that passed the filter).
GetArticlePanics(json) ==
    as_str(json.introtext) = <<>> \/ as_str(json.title) = <<>>

get_article(json) ==
    [ title  |-> json.title.val,
      date   |-> json.created.val,
      text   |-> NormalizeText(json.introtext.val),
      images |-> ExtractImages(json.introtext.val) ]

BothStrings(x) == as_str(x.created) # <<>> /\ as_str(x.catid) # <<>>

\* The filter closure panics on x: the date is parsed first, the category
\* only when the year matches (&& evaluates its right side lazily).
FilterPanics(x, year) ==
    /\ BothStrings(x)
    /\ \/ ParseYear(x.created.val) = <<>>
       \/ /\ ParseYear(x.created.val) = <<year>>
          /\ ParseU32(x.catid.val) = <<>>

\* The filter closure's value on x, when it does not panic.
FilterKeeps(x, year, catid) ==
    /\ BothStrings(x)
    /\ ParseYear(x.created.val) = <<year>>
    /\ ParseU32(x.catid.val) = <<catid>>

\* Mutant of InsertByDate: the article goes before the articles of its date, as
\* an unstable sort may place it.
RECURSIVE InsertByDate_Unstable(_, _)
InsertByDate_Unstable(sorted, a) ==
    IF sorted = <<>> THEN <<a>>
    ELSE IF DateLeq(Head(sorted).date, a.date) /\ Head(sorted).date # a.date
         THEN <<Head(sorted)>> \o InsertByDate_Unstable(Tail(sorted), a)
         ELSE <<a>> \o sorted

\* Vec::sort_by_key(|x| x.date.clone()): a stable sort by the date string.
RECURSIVE InsertByDate(_, _)
InsertByDate(sorted, a) ==
    IF sorted = <<>> THEN <<a>>
    ELSE IF DateLeq(Head(sorted).date, a.date)
         THEN <<Head(sorted)>> \o InsertByDate(Tail(sorted), a)
         ELSE <<a>> \o sorted

RECURSIVE SortByDate(_)
SortByDate(articles) ==
    IF articles = <<>> THEN <<>>
    ELSE InsertByDate(SortByDate(SubSeq(articles, 1, Len(articles) - 1)),
                      articles[Len(articles)])

\* The records that pass the filter, in source order.
Filtered(json, year, catid) ==
    SelectSeq(json, LAMBDA x : FilterKeeps(x, year, catid))

MapArticles(records) == [k \in 1..Len(records) |-> get_article(records[k])]

GetArticlesPanics(json, year, catid) ==
    \/ \E k \in 1..Len(json) : FilterPanics(json[k], year)
    \/ \E k \in 1..Len(json) :
          FilterKeeps(json[k], year, catid) /\ GetArticlePanics(json[k])

\* get_articles: the YearArticles, with ok FALSE when the call panics.
get_articles(json, year, catid) ==
    IF GetArticlesPanics(json, year, catid)
    THEN [ok |-> FALSE, year |-> year, articles |-> <<>>]
    ELSE [ok |-> TRUE, year |-> year,
          articles |-> SortByDate(MapArticles(Filtered(json, year, catid)))]

(***************************************************************************)
(* Paths below OUTPUT_DIR, and the documents written there                 *)
(*                                                                         *)
(* A path is the sequence of its components.                               *)
(***************************************************************************)
RECURSIVE PadLeft(_, _)
PadLeft(str, width) ==
    IF Len(str) >= width THEN str ELSE PadLeft("0" \o str, width)

\* format!("{:0>4}", index)
format_article_index(index) == PadLeft(ToString(index), 4)

\* format!("{:0>2}", index)
format_image_index(index) == PadLeft(ToString(index), 2)

series_dir(year) == <<"content", ToString(year)>>

thumbnail_dir(year) == <<"thumbnail", ToString(year)>>

series_index_path(year) == series_dir(year) \o <<"_index.md">>

article_dir(year, index) == series_dir(year) \o <<format_article_index(index)>>

article_path(year, index) == article_dir(year, index) \o <<"index.md">>

article_image_dir(year, index) == article_dir(year, index) \o <<"img">>

image_name(year, index, image_index) ==
    ToString(year) \o "-" \o format_article_index(index) \o "-"
        \o format_image_index(image_index) \o ".jpg"

image_destination(year, index, image_index) ==
    article_image_dir(year, index) \o <<image_name(year, index, image_index)>>

thumbnail_destination(year, index) ==
    thumbnail_dir(year) \o <<format_article_index(index) \o ".jpg">>

DefaultThumbnail == "img/default.png"

\* Article::to_markdown: the front matter as its list of keys and values,
\* the text, and the image shortcodes by the resource each names.
to_markdown(article, year, index) ==
    LET n         == Len(article.images)
        resources == [k \in 1..n |->
                        [ name |-> "img-" \o format_image_index(k - 1),
                          src  |-> "img/" \o image_name(year, index, k - 1) ]]
        common    == << [key |-> "title", val |-> article.title],
                        [key |-> "date", val |-> article.date],
                        [key |-> "description", val |-> article.title] >>
    IN  [ kind  |-> "article",
          front |-> IF n = 0
                    THEN common \o <<[key |-> "thumbnail", val |-> DefaultThumbnail]>>
                    ELSE common \o
                         << [key |-> "thumbnail",
                             val |-> "img/einsaetze/" \o ToString(year) \o "/"
                                         \o format_article_index(index) \o ".jpg"],
                            [key |-> "resources", val |-> resources] >>,
          text  |-> article.text,
          shortcodes |-> [k \in 1..n |-> "img-" \o format_image_index(k - 1)] ]

\* The document write_series_index writes ("Einsaetze" for the umlaut).
SeriesIndex(year) ==
    [ kind  |-> "series_index",
      front |-> << [key |-> "title", val |-> "Einsaetze " \o ToString(year)],
                   [key |-> "nested", val |-> "false"] >> ]

\* What fs::copy leaves at its destination: the bytes of OLD_WEBSITE_DIR/image.
CopyOf(image) == [kind |-> "copy", source |-> image]

\* A file's content after the user has edited it by hand.
Edited == [kind |-> "edited"]

(***************************************************************************)
(* The file store                                                          *)
(***************************************************************************)
Prefixes(path) == {SubSeq(path, 1, k) : k \in 1..Len(path)}

Parent(path) == SubSeq(path, 1, Len(path) - 1)

\* f with path mapped to content (fs::write and fs::copy create or replace).
Put(f, path, content) ==
    [q \in DOMAIN f \cup {path} |-> IF q = path THEN content ELSE f[q]]

Remove(f, path) == [q \in DOMAIN f \ {path} |-> f[q]]

(***************************************************************************)
(* Inputs                                                                  *)
(***************************************************************************)
\* Bounds of the model.
MaxRecords == 3
MaxRuns == 3
MaxEdits == 2

ImgTag(image) == <<"<", "i", "m", "g", " ">> \o SrcPrefix \o image \o <<"\"", ">">>

ImageA == <<"a">>
ImageB == <<"b">>

Record(created, catid, title, introtext) ==
    [created |-> created, catid |-> catid, title |-> title, introtext |-> introtext]

\* The kinds of record the input document may hold.
RecordPool ==
    << \* two images, later than the next record of the same year
       Record(Str(Date(2021, 2)), Str(<<"5">>), Str("A"),
              Str(<<"x", ".", " ">> \o ImgTag(ImageA) \o ImgTag(ImageB))),
       \* no image
       Record(Str(Date(2021, 1)), Str(<<"5">>), Str("B"), Str(<<"y">>)),
       \* one image
       Record(Str(Date(2020, 1)), Str(<<"0", "5">>), Str("C"), Str(ImgTag(ImageB))),
       \* created does not parse
       Record(Str(NotADate), Str(<<"5">>), Str("D"), Str(<<"d">>)),
       \* selected for 2019, no title
       Record(Str(Date(2019, 1)), Str(<<"5">>), Absent, Str(<<"e">>)),
       \* catid does not parse, a year that is not in YEARS
       Record(Str(Date(2017, 1)), Str(<<"x">>), Str("F"), Str(<<"f">>)),
       \* catid does not parse, a year of YEARS
       Record(Str(Date(2020, 2)), Str(<<"x">>), Str("G"), Str(<<"g">>)),
       \* no created
       Record(Absent, Str(<<"5">>), Str("H"), Str(<<"h">>)),
       \* another category
       Record(Str(Date(2021, 1)), Str(<<"6">>), Str("I"), Str(ImgTag(ImageA))) >>

\* The records of pool at the positions in S, in the order of pool.
Pick(pool, S) ==
    LET F[k \in 0..Len(pool)] ==
            IF k = 0 THEN <<>>
            ELSE IF k \in S THEN Append(F[k - 1], pool[k]) ELSE F[k - 1]
    IN  F[Len(pool)]

Inputs ==
    { Pick(RecordPool, S) :
        S \in {T \in SUBSET (1..Len(RecordPool)) : Cardinality(T) <= MaxRecords} }

(***************************************************************************)
(* State                                                                   *)
(***************************************************************************)
Procs == {1, 2}

VARIABLES
    data,           \* json["data"]: the records of INPUT_FILE
    assets,         \* the images that exist below OLD_WEBSITE_DIR
    dirs,           \* the directories that exist below OUTPUT_DIR
    files,          \* the files below OUTPUT_DIR: path -> content
    pc,             \* per invocation: where it is in main
    year_index,     \* per invocation: the position in YEARS of the for loop
    year_articles,  \* per invocation: the YearArticles of the current year
    article_index,  \* per invocation: the index of the loop of write_articles
    image_index,    \* per invocation: the index of the loop of copy_images
    runs,           \* how many times the program has been started in sequence
    edits,          \* how many files the user has deleted or edited
    last_exit,      \* how the previous run in sequence ended
    deleted,        \* the article files the user has deleted, and when
    written         \* the years whose loop in write_articles has run to its end

vars == << data, assets, dirs, files, pc, year_index, year_articles,
           article_index, image_index, runs, edits, last_exit, deleted, written >>

store == <<dirs, files>>

env == <<data, assets, runs, edits, last_exit, deleted>>

NoFiles == [q \in {} |-> Edited]

NoArticles == [ok |-> TRUE, year |-> 0, articles |-> <<>>]

Running(p) == pc[p] \notin {"off", "exited", "panicked"}

Year(p) == YEARS[year_index[p]]

Articles(p) == year_articles[p].articles

Article(p) == Articles(p)[article_index[p] + 1]

Goto(p, label) == pc' = [pc EXCEPT ![p] = label]

Panic(p) ==
    /\ Goto(p, "panicked")
    /\ UNCHANGED <<store, year_index, year_articles, article_index, image_index, written>>

\* The next iteration of main's loop over YEARS, or Ok(()).
NextYear(p) ==
    IF year_index[p] < Len(YEARS)
    THEN /\ Goto(p, "get_articles")
         /\ year_index' = [year_index EXCEPT ![p] = @ + 1]
    ELSE /\ Goto(p, "exited")
         /\ UNCHANGED year_index

(***************************************************************************)
(* main, one invocation p: a step per call that reads or changes the file  *)
(* store                                                                   *)
(***************************************************************************)
\* Mutant of GetArticles: the year's directories are created before the
\* records are selected.
GetArticles_DirsFirst(p) ==
    /\ pc[p] = "get_articles"
    /\ LET selected == get_articles(data, Year(p), CATID)
       IN  IF selected.ok
           THEN /\ year_articles' = [year_articles EXCEPT ![p] = selected]
                /\ Goto(p, "write_articles")
                /\ UNCHANGED <<store, year_index, article_index, image_index, written>>
           ELSE /\ Goto(p, "panicked")
                /\ dirs' = IF series_dir(Year(p)) \in dirs THEN dirs
                           ELSE dirs \cup Prefixes(series_dir(Year(p)))
                                     \cup Prefixes(thumbnail_dir(Year(p)))
                /\ UNCHANGED <<files, year_index, year_articles, article_index,
                               image_index, written>>
    /\ UNCHANGED env

\* main, line 184: get_articles for the year of the loop; a panic ends the run.
GetArticles(p) ==
    /\ pc[p] = "get_articles"
    /\ LET selected == get_articles(data, Year(p), CATID)
       IN  IF selected.ok
           THEN /\ year_articles' = [year_articles EXCEPT ![p] = selected]
                /\ Goto(p, "write_articles")
                /\ UNCHANGED <<store, year_index, article_index, image_index, written>>
           ELSE Panic(p)
    /\ UNCHANGED env

\* Mutant of SeriesDirExists: the year counts as migrated when its _index.md
\* exists, not when its directory does.
SeriesDirExists_IndexFile(year) == series_index_path(year) \in DOMAIN files

\* series_dir.exists()
SeriesDirExists(year) == series_dir(year) \in dirs \/ series_dir(year) \in DOMAIN files

\* write_articles, line 101: a year whose directory exists is left alone.
WriteArticles(p) ==
    /\ pc[p] = "write_articles"
    /\ IF SeriesDirExists(Year(p))
       THEN NextYear(p)
       ELSE Goto(p, "create_series_dir") /\ UNCHANGED year_index
    /\ UNCHANGED <<store, year_articles, article_index, image_index, written, env>>

\* write_articles, line 102: fs::create_dir_all(&series_dir)
CreateSeriesDir(p) ==
    /\ pc[p] = "create_series_dir"
    /\ dirs' = dirs \cup Prefixes(series_dir(Year(p)))
    /\ Goto(p, "create_thumbnail_dir")
    /\ UNCHANGED <<files, year_index, year_articles, article_index, image_index,
                   written, env>>

\* The loop of write_articles goes on with article `index`, or has run to
\* its end and write_articles returns.
Iterate(p, index) ==
    /\ article_index' = [article_index EXCEPT ![p] = index]
    /\ IF index < Len(Articles(p))
       THEN /\ Goto(p, "write_series_index")
            /\ UNCHANGED <<year_index, written>>
       ELSE /\ written' = written \cup {Year(p)}
            /\ NextYear(p)

\* write_articles, line 107: fs::create_dir_all(&thumbnail_dir), then the loop
CreateThumbnailDir(p) ==
    /\ pc[p] = "create_thumbnail_dir"
    /\ dirs' = dirs \cup Prefixes(thumbnail_dir(Year(p)))
    /\ Iterate(p, 0)
    /\ UNCHANGED <<files, year_articles, image_index, env>>

\* write_series_index: fs::write of the year's _index.md
WriteSeriesIndex(p) ==
    /\ pc[p] = "write_series_index"
    /\ IF series_dir(Year(p)) \in dirs
       THEN /\ files' = Put(files, series_index_path(Year(p)), SeriesIndex(Year(p)))
            /\ Goto(p, "create_article_dir")
            /\ UNCHANGED <<dirs, year_index, year_articles, article_index,
                           image_index, written>>
       ELSE Panic(p)
    /\ UNCHANGED env

\* fs::create_dir(path) succeeds: the parent exists and nothing is at path.
CanCreateDir(path) ==
    /\ Parent(path) \in dirs
    /\ path \notin dirs
    /\ path \notin DOMAIN files

\* write_article, line 122: fs::create_dir(&article_dir)
CreateArticleDir(p) ==
    /\ pc[p] = "create_article_dir"
    /\ LET dir == article_dir(Year(p), article_index[p])
       IN  IF CanCreateDir(dir)
           THEN /\ dirs' = dirs \cup {dir}
                /\ Goto(p, "article_write")
                /\ UNCHANGED <<files, year_index, year_articles, article_index,
                               image_index, written>>
           ELSE Panic(p)
    /\ UNCHANGED env

\* article_path.exists()
ArticleExists(path) == path \in DOMAIN files \/ path \in dirs

\* Article::write: the markdown is written unless index.md exists.
ArticleWrite(p) ==
    /\ pc[p] = "article_write"
    /\ LET path == article_path(Year(p), article_index[p])
       IN  IF ArticleExists(path)
           THEN UNCHANGED files
           ELSE files' = Put(files, path,
                             to_markdown(Article(p), Year(p), article_index[p]))
    /\ Goto(p, "create_image_dir")
    /\ UNCHANGED <<dirs, year_index, year_articles, article_index, image_index,
                   written, env>>

\* write_article, line 129: fs::create_dir(&article_image_dir), then copy_images
CreateImageDir(p) ==
    /\ pc[p] = "create_image_dir"
    /\ LET dir == article_image_dir(Year(p), article_index[p])
       IN  IF CanCreateDir(dir)
           THEN /\ dirs' = dirs \cup {dir}
                /\ image_index' = [image_index EXCEPT ![p] = 0]
                /\ Goto(p, IF Article(p).images = <<>>
                           THEN "copy_thumbnail" ELSE "copy_images")
                /\ UNCHANGED <<files, year_index, year_articles, article_index,
                               written>>
           ELSE Panic(p)
    /\ UNCHANGED env

\* fs::copy(OLD_WEBSITE_DIR/image, destination) succeeds.
CanCopy(image, destination) ==
    /\ image \in assets
    /\ Parent(destination) \in dirs
    /\ destination \notin dirs

\* copy_images: one iteration, the fs::copy of image image_index
CopyImages(p) ==
    /\ pc[p] = "copy_images"
    /\ LET image == Article(p).images[image_index[p] + 1]
           destination == image_destination(Year(p), article_index[p], image_index[p])
       IN  IF CanCopy(image, destination)
           THEN /\ files' = Put(files, destination, CopyOf(image))
                /\ image_index' = [image_index EXCEPT ![p] = @ + 1]
                /\ Goto(p, IF image_index[p] + 1 < Len(Article(p).images)
                           THEN "copy_images" ELSE "copy_thumbnail")
                /\ UNCHANGED <<dirs, year_index, year_articles, article_index,
                               written>>
           ELSE Panic(p)
    /\ UNCHANGED env

\* Mutant of ThumbnailSource: article.images.last()
ThumbnailSource_Last(article) ==
    IF article.images = <<>> THEN <<>> ELSE <<article.images[Len(article.images)]>>

\* article.images.first()
ThumbnailSource(article) ==
    IF article.images = <<>> THEN <<>> ELSE <<article.images[1]>>

\* copy_thumbnail, then the next iteration of the loop of write_articles
CopyThumbnail(p) ==
    /\ pc[p] = "copy_thumbnail"
    /\ LET source == ThumbnailSource(Article(p))
           destination == thumbnail_destination(Year(p), article_index[p])
       IN  IF source = <<>>
           THEN /\ Iterate(p, article_index[p] + 1)
                /\ UNCHANGED <<store, year_articles, image_index>>
           ELSE IF CanCopy(source[1], destination)
                THEN /\ files' = Put(files, destination, CopyOf(source[1]))
                     /\ Iterate(p, article_index[p] + 1)
                     /\ UNCHANGED <<dirs, year_articles, image_index>>
                ELSE Panic(p)
    /\ UNCHANGED env

Step(p) ==
    \/ GetArticles(p)
    \/ WriteArticles(p)
    \/ CreateSeriesDir(p)
    \/ CreateThumbnailDir(p)
    \/ WriteSeriesIndex(p)
    \/ CreateArticleDir(p)
    \/ ArticleWrite(p)
    \/ CreateImageDir(p)
    \/ CopyImages(p)
    \/ CopyThumbnail(p)

(***************************************************************************)
(* The user, between two runs                                              *)
(***************************************************************************)
Idle == \A p \in Procs : ~Running(p)

program == <<pc, year_index, year_articles, article_index, image_index, written>>

IsArticlePath(path) == Len(path) = 4 /\ path[1] = "content" /\ path[4] = "index.md"

\* The year whose directory holds path.
YearOf(path) == CHOOSE y \in {YEARS[k] : k \in 1..Len(YEARS)} : ToString(y) = path[2]

\* The user deletes the index.md of one article.
DeleteArticleFile ==
    /\ Idle
    /\ edits < MaxEdits
    /\ \E path \in DOMAIN files :
          /\ IsArticlePath(path)
          /\ files' = Remove(files, path)
          /\ deleted' = deleted \cup
                 {[path |-> path, run |-> runs, full |-> YearOf(path) \in written]}
    /\ edits' = edits + 1
    /\ UNCHANGED <<data, assets, dirs, runs, last_exit, program>>

\* The user edits the index.md of one article.
EditArticleFile ==
    /\ Idle
    /\ edits < MaxEdits
    /\ \E path \in DOMAIN files :
          /\ IsArticlePath(path)
          /\ files[path] # Edited
          /\ files' = Put(files, path, Edited)
    /\ edits' = edits + 1
    /\ UNCHANGED <<data, assets, dirs, runs, last_exit, deleted, program>>

\* The user starts the program again, on the same input.
Rerun ==
    /\ Idle
    /\ pc[1] # "off"
    /\ runs < MaxRuns
    /\ runs' = runs + 1
    /\ last_exit' = pc[1]
    /\ pc' = [pc EXCEPT ![1] = "get_articles"]
    /\ year_index' = [year_index EXCEPT ![1] = 1]
    /\ article_index' = [article_index EXCEPT ![1] = 0]
    /\ image_index' = [image_index EXCEPT ![1] = 0]
    /\ year_articles' = [year_articles EXCEPT ![1] = NoArticles]
    /\ UNCHANGED <<data, assets, store, edits, deleted, written>>

(***************************************************************************)
(* Spec: runs of the program one after the other, on an output tree that   *)
(* is empty before the first                                               *)
(***************************************************************************)
InitProgram ==
    /\ dirs = {}
    /\ files = NoFiles
    /\ pc = [p \in Procs |-> IF p = 1 THEN "get_articles" ELSE "off"]
    /\ year_index = [p \in Procs |-> 1]
    /\ year_articles = [p \in Procs |-> NoArticles]
    /\ article_index = [p \in Procs |-> 0]
    /\ image_index = [p \in Procs |-> 0]
    /\ runs = 1
    /\ edits = 0
    /\ last_exit = "none"
    /\ deleted = {}
    /\ written = {}

Init ==
    /\ data \in Inputs
    /\ assets \in SUBSET {ImageA, ImageB}
    /\ InitProgram

Next ==
    \/ Step(1)
    \/ DeleteArticleFile
    \/ EditArticleFile
    \/ Rerun

Spec == Init /\ [][Next]_vars

(***************************************************************************)
(* SpecConcurrent: a second invocation of the program, started while the   *)
(* first is running on the same output tree                                *)
(***************************************************************************)
\* The user starts invocation p of the program.
Start(p) ==
    /\ pc[p] = "off"
    /\ pc' = [pc EXCEPT ![p] = "get_articles"]
    /\ UNCHANGED <<store, year_index, year_articles, article_index, image_index,
                   written, env>>

InitConcurrent ==
    /\ data \in {Pick(RecordPool, S) : S \in SUBSET {1, 2, 3}}
    /\ assets = {ImageA, ImageB}
    /\ InitProgram

NextConcurrent ==
    \/ \E p \in Procs : Step(p)
    \/ Start(2)

SpecConcurrent == InitConcurrent /\ [][NextConcurrent]_vars

(***************************************************************************)
(* SpecSelect: one call of get_articles on a list of records               *)
(***************************************************************************)
MaxSelRecords == 4

Plain == Str(<<"t">>)

SelectPool ==
    { Record(Str(Date(2021, 1)), Str(<<"5">>), Str("A"), Plain),
      Record(Str(Date(2021, 1)), Str(<<"5">>), Str("B"), Plain),
      Record(Str(Date(2021, 0)), Str(<<"+", "5">>), Str("C"), Plain),
      Record(Str(Date(2020, 1)), Str(<<"5">>), Str("A"), Plain),
      Record(Str(Date(2021, 1)), Str(<<"6">>), Str("A"), Plain),
      Record(Absent, Str(<<"5">>), Str("A"), Plain),
      Record(Str(Date(2021, 1)), Num(5), Str("A"), Plain),
      Record(Str(Date(2021, 1)), Str(<<"5">>), Absent, Plain),
      Record(Str(Date(2021, 1)), Str(<<"5">>), Str("A"), Absent),
      Record(Str(NotADate), Str(<<"5">>), Str("A"), Plain),
      Record(Str(Date(2021, 1)), Str(<<"x">>), Str("A"), Plain) }

SeqsUpTo(S, n) == UNION {[1..k -> S] : k \in 0..n}

InitSelect ==
    /\ data \in SeqsUpTo(SelectPool, MaxSelRecords)
    /\ assets = {}
    /\ InitProgram

NextSelect == GetArticles(1)

SpecSelect == InitSelect /\ [][NextSelect]_vars

(***************************************************************************)
(* SpecNormalize: one call of get_articles on one record that is selected, *)
(* over its introtext                                                      *)
(***************************************************************************)
MaxTextLen == 5
MaxSegments == 2

EmbedTag(source) ==
    <<"<", "e", "m", "b", "e", "d", " ">> \o SrcPrefix \o source \o <<"\"", ">">>

Segments ==
    { ImgTag(ImageA), ImgTag(ImageB), EmbedTag(<<"v">>),
      <<"<", "p", ">">>, <<"x">>, <<NBSP>>, <<"\r">>, <<"\n">>, <<".", " ">> }

RECURSIVE Concat(_)
Concat(ss) == IF ss = <<>> THEN <<>> ELSE Head(ss) \o Concat(Tail(ss))

Texts ==
    SeqsUpTo({"a", "3", ".", " "}, MaxTextLen)
        \cup {Concat(ss) : ss \in SeqsUpTo(Segments, MaxSegments)}

InitNormalize ==
    /\ data \in {<<Record(Str(Date(2021, 1)), Str(<<"5">>), Str("T"), Str(text))>> :
                    text \in Texts}
    /\ assets = {}
    /\ InitProgram

NextNormalize == GetArticles(1)

SpecNormalize == InitNormalize /\ [][NextNormalize]_vars

(***************************************************************************)
(* Properties                                                              *)
(***************************************************************************)
YearSet == {YEARS[k] : k \in 1..Len(YEARS)}

\* The paths of the output tree that lie below content/{year} or
\* thumbnail/{year}.
Below(year, paths) == {q \in paths : Len(q) >= 2 /\ q[2] = ToString(year)}

\* Invocation p takes a step.
Steps(p) == Running(p) /\ (pc'[p] # pc[p] \/ image_index'[p] # image_index[p])

\* C1: a year whose directory content/{year} exists when write_articles is
\* entered is left as it is, whatever it holds: the step changes no directory
\* and no file and goes on with the next year (or ends the run); and a run that
\* follows a run that ended with Ok(()) changes nothing in the output tree.
C1_YearLevelSkip ==
    [][ \A p \in Procs :
          /\ (pc[p] = "write_articles" /\ Steps(p) /\ series_dir(Year(p)) \in dirs)
                => /\ store' = store
                   /\ written' = written
                   /\ \/ pc'[p] = "exited" /\ year_index[p] = Len(YEARS)
                      \/ pc'[p] = "get_articles" /\ year_index'[p] = year_index[p] + 1
          /\ (last_exit = "exited" /\ Steps(p)) => store' = store ]_vars

\* A rerun has ended with Ok(()) after a run that panicked half way through a
\* year, the user has edited an article file in between, and the file is as
\* the user left it.
C1_Witness ==
    /\ runs = 2
    /\ pc[1] = "exited"
    /\ last_exit = "panicked"
    /\ \E path \in DOMAIN files : files[path] = Edited
    /\ \E y \in YearSet : series_dir(y) \in dirs /\ y \notin written

\* C2: when the user has deleted the index.md of an article of a year that was
\* migrated to its end, a later run that ends with Ok(()) has written that
\* index.md again.
C2_RerunRecreatesDeletedArticle ==
    \A d \in deleted :
        (d.full /\ d.run < runs /\ pc[1] = "exited") => d.path \in DOMAIN files

\* C4: a year whose selection or normalization panics, and every year after
\* it in YEARS, has no directory and no file in the output tree, in any run;
\* and the step that panics changes no directory and no file, so what earlier
\* years have written stays.
C4_FatalBeforeAnyWrite ==
    /\ [](\A k \in 1..Len(YEARS) :
            GetArticlesPanics(data, YEARS[k], CATID)
                => \A j \in k..Len(YEARS) :
                      Below(YEARS[j], dirs \cup DOMAIN files) = {})
    /\ [][ \A p \in Procs :
             (pc[p] = "get_articles" /\ pc'[p] = "panicked")
                 => store' = store /\ written' = written ]_vars

\* The run has panicked selecting the third year, after writing an article of
\* the first.
C4_Witness ==
    /\ pc[1] = "panicked"
    /\ year_index[1] = 3
    /\ GetArticlesPanics(data, YEARS[3], CATID)
    /\ YEARS[1] \in written
    /\ article_path(YEARS[1], 0) \in DOMAIN files

\* C5: a run that ends with Ok(()) has met no record with created and catid
\* both strings and one of them unparseable.
C5_MalformedAborts ==
    pc[1] = "exited"
        => \A k \in 1..Len(data) :
              BothStrings(data[k])
                  => /\ ParseYear(data[k].created.val) # <<>>
                     /\ ParseU32(data[k].catid.val) # <<>>

\* C6: every year whose loop in write_articles has run to its end has its
\* _index.md; and a step that writes a year's _index.md finds every article of
\* the year written, with its images and its thumbnail.
C6_YearIndexWrittenLast ==
    /\ [](\A y \in written : series_index_path(y) \in DOMAIN files)
    /\ [][ \A p \in Procs :
             (pc[p] = "write_series_index" /\ Steps(p))
                 => \A i \in 0..(Len(Articles(p)) - 1) :
                       /\ article_path(Year(p), i) \in DOMAIN files
                       /\ \A k \in 1..Len(Articles(p)[i + 1].images) :
                             image_destination(Year(p), i, k - 1) \in DOMAIN files ]_vars

FrontValue(md, key) ==
    LET at == {k \in 1..Len(md.front) : md.front[k].key = key}
    IN  IF at = {} THEN <<>> ELSE <<md.front[CHOOSE k \in at : TRUE].val>>

\* C7: in a year written to its end, an article has a thumbnail file iff it
\* has an image, and the file is a copy of its first image; a rendered article
\* without images names the default thumbnail and has no resources key, one
\* with images names another thumbnail and lists the resources img-00, img-01,
\* ..., one per image, in order.
C7_ThumbnailConsistency ==
    \A y \in YearSet :
        LET selected == get_articles(data, y, CATID)
        IN  \A i \in 0..(Len(selected.articles) - 1) :
               LET a  == selected.articles[i + 1]
                   th == thumbnail_destination(y, i)
                   ap == article_path(y, i)
               IN  /\ y \in written =>
                         /\ th \in DOMAIN files <=> a.images # <<>>
                         /\ th \in DOMAIN files => files[th] = CopyOf(a.images[1])
                   /\ (ap \in DOMAIN files /\ files[ap].kind = "article") =>
                         LET md == files[ap]
                         IN  IF a.images = <<>>
                             THEN /\ FrontValue(md, "thumbnail") = <<DefaultThumbnail>>
                                  /\ FrontValue(md, "resources") = <<>>
                             ELSE /\ FrontValue(md, "thumbnail") # <<>>
                                  /\ FrontValue(md, "thumbnail") # <<DefaultThumbnail>>
                                  /\ FrontValue(md, "resources") # <<>>
                                  /\ LET res == FrontValue(md, "resources")[1]
                                     IN  /\ Len(res) = Len(a.images)
                                         /\ \A k \in 1..Len(res) :
                                               res[k].name =
                                                   "img-" \o format_image_index(k - 1)

\* The first year is written to its end: its first article has no image and
\* no thumbnail, its second has two images and a thumbnail.
C7_Witness ==
    /\ YEARS[1] \in written
    /\ Len(get_articles(data, YEARS[1], CATID).articles) = 2
    /\ thumbnail_destination(YEARS[1], 0) \notin DOMAIN files
    /\ thumbnail_destination(YEARS[1], 1) \in DOMAIN files
    /\ article_path(YEARS[1], 0) \in DOMAIN files
    /\ article_path(YEARS[1], 1) \in DOMAIN files

\* Every created and every catid that is a string parses.
WellFormedKeys(json) ==
    \A k \in 1..Len(json) :
        /\ json[k].created.kind = "str" => json[k].created.val.wf
        /\ json[k].catid.kind = "str" => ParseU32(json[k].catid.val) # <<>>

\* The positions of the records with created and catid both strings, of the
\* year and of the category.
SelectedAt(json, year, catid) ==
    { k \in 1..Len(json) :
        /\ json[k].created.kind = "str" /\ json[k].catid.kind = "str"
        /\ json[k].created.val.y = year
        /\ ParseU32(json[k].catid.val) = <<catid>> }

\* The place in the result of the record at position k: after the selected
\* records of an earlier date, and after those of its date that come before it.
PlaceOf(json, sel, k) ==
    1 + Cardinality({ j \in sel :
            LET a == json[j].created.val
                b == json[k].created.val
            IN  \/ a.y < b.y
                \/ a.y = b.y /\ a.t < b.t
                \/ a = b /\ j < k })

\* articles holds the selected records and no other, by date and then by
\* position in json.
IsSelection(articles, json, year, catid) ==
    LET sel == SelectedAt(json, year, catid)
    IN  /\ Len(articles) = Cardinality(sel)
        /\ \A k \in sel :
              LET a == articles[PlaceOf(json, sel, k)]
              IN  /\ a.title = json[k].title.val
                  /\ a.date = json[k].created.val
                  /\ a.text = NormalizeText(json[k].introtext.val)
                  /\ a.images = ExtractImages(json[k].introtext.val)

\* C3, as stated: on records whose created and catid parse wherever they are
\* strings, get_articles returns, and returns the selected records by date,
\* those of one date in source order.
C3_SelectsAndSorts ==
    (pc[1] # "get_articles" /\ WellFormedKeys(data))
        => /\ pc[1] = "write_articles"
           /\ IsSelection(Articles(1), data, Year(1), CATID)

\* C3, amended: the same, on records whose title and introtext are strings
\* wherever the record is selected.
C3_SelectsAndSortsTitled ==
    ( /\ pc[1] # "get_articles"
      /\ WellFormedKeys(data)
      /\ \A k \in SelectedAt(data, Year(1), CATID) :
            data[k].title.kind = "str" /\ data[k].introtext.kind = "str" )
        => /\ pc[1] = "write_articles"
           /\ IsSelection(Articles(1), data, Year(1), CATID)

\* get_articles has returned three articles out of order in the source, two
\* of them of one date, and has left out a record.
C3_Witness ==
    /\ pc[1] = "write_articles"
    /\ WellFormedKeys(data)
    /\ Len(data) = 4
    /\ Len(Articles(1)) = 3
    /\ Articles(1)[2].date = Articles(1)[3].date
    /\ Articles(1)[2].title # Articles(1)[3].title
    /\ data[1].created.kind = "str" /\ data[1].title.kind = "str"
    /\ Articles(1)[1].date # data[1].created.val
    /\ Articles(1)[3].title = "A"

\* The sources of the image tags of s, in order: for every "<img" ... ">",
\* the values of the src attributes in it.
RECURSIVE ImageTagSourcesFrom(_, _)
ImageTagSourcesFrom(s, i) ==
    IF i > Len(s) THEN <<>>
    ELSE IF i + 3 <= Len(s) /\ SubSeq(s, i, i + 3) = <<"<", "i", "m", "g">>
         THEN LET n == RunLen(s, i, {">"})
              IN  ImagesFrom(SubSeq(s, i, i + n - 1) , 1)
                      \o ImageTagSourcesFrom(s, i + n)
         ELSE ImageTagSourcesFrom(s, i + 1)

\* C8: the images of an article are the src values of the image tags of its
\* introtext, in order, and nothing else.
C8_ImagesAreImageTagSources ==
    pc[1] = "write_articles"
        => Articles(1)[1].images = ImageTagSourcesFrom(data[1].introtext.val, 1)

\* Every period of s that a whitespace character follows and no digit
\* precedes, replaced with that whitespace character by a period and a newline.
RECURSIVE ReflowFrom(_, _)
ReflowFrom(s, i) ==
    IF i > Len(s) THEN <<>>
    ELSE IF /\ s[i] = "."
            /\ i < Len(s) /\ IsSpace(s[i + 1])
            /\ (i = 1 \/ ~IsDigit(s[i - 1]))
         THEN <<".", "\n">> \o ReflowFrom(s, i + 2)
         ELSE <<s[i]>> \o ReflowFrom(s, i + 1)

\* C9: the text of an article is its introtext without tags and non-breaking
\* spaces, with LF for CR LF, with every period that a whitespace character
\* follows and no digit precedes reflowed, without leading newlines.
C9_SentenceReflow ==
    pc[1] = "write_articles"
        => Articles(1)[1].text =
              StripLeadingNewlines(
                  ReflowFrom(CrLfToLf(RemoveNbsp(CleanTags(data[1].introtext.val))), 1))

\* C10: an invocation that is writing a year and is about to write an article
\* whose index.md exists goes on without a panic and leaves the file as it
\* is; and no step of an invocation changes or removes an index.md that
\* exists.
C10_PerArticleSkip ==
    [][ \A p \in Procs :
          /\ ( /\ pc[p] \in {"create_article_dir", "article_write"}
               /\ Steps(p)
               /\ article_path(Year(p), article_index[p]) \in DOMAIN files )
                => pc'[p] # "panicked" /\ files' = files
          /\ Steps(p) =>
                \A path \in DOMAIN files :
                    IsArticlePath(path)
                        => path \in DOMAIN files' /\ files'[path] = files[path] ]_vars

=============================================================================
